---- MODULE Spec2Model ----
(***************************************************************************)
(* Model of the responsive gallery of src/components/gallery/gallery.js:   *)
(* the Gallery component (resize observation, memoised layout, render),    *)
(* getImageLayout, getMobileImageSizes, getImageLoadBehavior and the Widow *)
(* filler, together with the justified row packing that getImageLayout     *)
(* hands the wide-screen case to.                                          *)
(*                                                                         *)
(* JavaScript numbers are modelled as exact rationals extended with        *)
(* Infinity, NaN and undefined; rounding error of IEEE doubles is not      *)
(* modelled.                                                               *)
(***************************************************************************)
EXTENDS Integers, Sequences, FiniteSets, TLC

VARIABLES
    fluidImages,  \* the images prop of Gallery
    width,        \* the width the resize observer last reported
    memo,         \* the layout memo: its dependencies and its value
    rendered,     \* what the last render drew
    error,        \* the error that tore the gallery down, or NoError
    invoked,      \* did the last render call getImageLayout
    previous,     \* which layout the render before the last width change used
    probe         \* a pure function applied to chosen arguments

vars == <<fluidImages, width, memo, rendered, error, invoked, previous, probe>>

----------------------------------------------------------------------------
(* Bounds of the model                                                     *)

MaxImages == 3
MaxIndex == 8
MaxWidow == 2

----------------------------------------------------------------------------
(* JavaScript number values: [k, n, d] with k in num / inf / nan / undef.  *)
(* A num is the rational n/d in lowest terms with d > 0; inf carries its   *)
(* sign in n.                                                              *)

RECURSIVE Gcd(_, _)
Gcd(a, b) == IF b = 0 THEN a ELSE Gcd(b, a % b)

AbsInt(a) == IF a < 0 THEN -a ELSE a

Rat(n, d) ==
    LET s == IF d < 0 THEN -1 ELSE 1
        g == Gcd(AbsInt(n), AbsInt(d))
    IN  [k |-> "num", n |-> (s * n) \div g, d |-> (s * d) \div g]

Num(i) == [k |-> "num", n |-> i, d |-> 1]
Infinity == [k |-> "inf", n |-> 1, d |-> 0]
NegInfinity == [k |-> "inf", n |-> -1, d |-> 0]
NaN == [k |-> "nan", n |-> 0, d |-> 0]
undefined == [k |-> "undef", n |-> 0, d |-> 0]

IsNum(a) == a.k = "num"
IsNotNumber(a) == a.k \in {"nan", "undef"}
Sign(a) == IF a.n > 0 THEN 1 ELSE IF a.n < 0 THEN -1 ELSE 0

\* a / b
JsDiv(a, b) ==
    IF IsNotNumber(a) \/ IsNotNumber(b) THEN NaN
    ELSE IF IsNum(a) /\ IsNum(b) THEN
        IF b.n = 0 THEN
            (IF a.n = 0 THEN NaN ELSE IF a.n > 0 THEN Infinity ELSE NegInfinity)
        ELSE Rat(a.n * b.d, a.d * b.n)
    ELSE IF IsNum(a) THEN Num(0)
    ELSE IF IsNum(b) THEN
        (IF Sign(a) * (IF b.n < 0 THEN -1 ELSE 1) > 0 THEN Infinity ELSE NegInfinity)
    ELSE NaN

\* a * b
JsMul(a, b) ==
    IF IsNotNumber(a) \/ IsNotNumber(b) THEN NaN
    ELSE IF IsNum(a) /\ IsNum(b) THEN Rat(a.n * b.n, a.d * b.d)
    ELSE IF Sign(a) * Sign(b) = 0 THEN NaN
    ELSE IF Sign(a) * Sign(b) > 0 THEN Infinity ELSE NegInfinity

\* a + b
JsAdd(a, b) ==
    IF IsNotNumber(a) \/ IsNotNumber(b) THEN NaN
    ELSE IF IsNum(a) /\ IsNum(b) THEN Rat(a.n * b.d + b.n * a.d, a.d * b.d)
    ELSE IF IsNum(a) THEN b
    ELSE IF IsNum(b) THEN a
    ELSE IF a.n = b.n THEN a ELSE NaN

JsNeg(a) ==
    IF IsNotNumber(a) THEN NaN ELSE [a EXCEPT !.n = -a.n]

\* a - b
JsSub(a, b) == JsAdd(a, JsNeg(b))

\* a < b (false when either side is NaN)
JsLt(a, b) ==
    IF IsNotNumber(a) \/ IsNotNumber(b) THEN FALSE
    ELSE IF IsNum(a) /\ IsNum(b) THEN a.n * b.d < b.n * a.d
    ELSE IF IsNum(a) THEN b.n > 0
    ELSE IF IsNum(b) THEN a.n < 0
    ELSE a.n < b.n

JsEq(a, b) == ~IsNotNumber(a) /\ ~IsNotNumber(b) /\ a = b
JsLe(a, b) == JsLt(a, b) \/ JsEq(a, b)
JsGt(a, b) == JsLt(b, a)
JsGe(a, b) == JsLe(b, a)

\* truthiness of a number: 0, NaN and undefined are falsy
Truthy(a) == ~IsNotNumber(a) /\ a.n # 0

\* isNaN(x) of a number
JsIsNaN(a) == IsNotNumber(a)

MathAbs(a) == IF IsNotNumber(a) THEN NaN ELSE [a EXCEPT !.n = AbsInt(a.n)]
MathMax(a, b) ==
    IF IsNotNumber(a) \/ IsNotNumber(b) THEN NaN ELSE IF JsLt(a, b) THEN b ELSE a
MathMin(a, b) ==
    IF IsNotNumber(a) \/ IsNotNumber(b) THEN NaN ELSE IF JsLt(b, a) THEN b ELSE a

\* Math.round: nearest integer, halves towards +Infinity
MathRound(a) ==
    IF IsNum(a) THEN Num((2 * a.n + a.d) \div (2 * a.d)) ELSE
    IF a.k = "inf" THEN a ELSE NaN

----------------------------------------------------------------------------
(* Configuration and breakpoints                                           *)

boxSpacing == 5
containerPadding == 0
targetRowHeight == 400
toleranceNum == 25
toleranceDen == 100

GALLERY_CONFIG ==
    [boxSpacing |-> Num(boxSpacing),
     containerPadding |-> Num(containerPadding),
     targetRowHeight |-> Num(targetRowHeight),
     targetRowHeightTolerance |-> Rat(toleranceNum, toleranceDen)]

\* breakpoints exported by the gallery's style sheet (pixels)
screen_mobile_small == 500
screen_desktop == 1200

----------------------------------------------------------------------------
(* Sequence helpers                                                        *)

RECURSIVE SumOf(_, _)
\* seq.reduce((acc, cur) => acc + f(cur), 0) for the field named fld
SumOf(seq, fld) ==
    IF seq = <<>> THEN Num(0)
    ELSE JsAdd(SumOf(SubSeq(seq, 1, Len(seq) - 1), fld), seq[Len(seq)][fld])

\* boxes.slice(from) with a 0-based start index; a negative or oversized
\* start is clamped as Array.prototype.slice does
Slice(seq, from) ==
    LET f == IF from < 0 THEN (IF Len(seq) + from < 0 THEN 0 ELSE Len(seq) + from)
             ELSE IF from > Len(seq) THEN Len(seq) ELSE from
    IN  SubSeq(seq, f + 1, Len(seq))

----------------------------------------------------------------------------
(* The justified row packing (getJustifiedLayout)                          *)

Threw(msg) == [kind |-> "threw", message |-> msg]

\* input.map(item => item.width && item.height ? {aspectRatio: w / h}
\*                                             : {aspectRatio: item})
\* The item object itself is not a number: isNaN reports it as such.
ItemAspectRatio(item) ==
    IF Truthy(item.width) /\ Truthy(item.height)
    THEN JsDiv(item.width, item.height)
    ELSE NaN

createNewRow(layoutConfig, containerHeight) ==
    LET w == JsSub(JsSub(layoutConfig.containerWidth, layoutConfig.containerPadding),
                   layoutConfig.containerPadding)
        ratio == JsDiv(w, layoutConfig.targetRowHeight)
    IN  [top |-> containerHeight,
         left |-> layoutConfig.containerPadding,
         width |-> w,
         spacing |-> layoutConfig.boxSpacing,
         targetRowHeight |-> layoutConfig.targetRowHeight,
         minAspectRatio |->
             JsMul(ratio, JsSub(Num(1), layoutConfig.targetRowHeightTolerance)),
         maxAspectRatio |->
             JsMul(ratio, JsAdd(Num(1), layoutConfig.targetRowHeightTolerance)),
         edgeCaseMinRowHeight |-> JsDiv(layoutConfig.targetRowHeight, Num(2)),
         edgeCaseMaxRowHeight |-> JsMul(Num(2), layoutConfig.targetRowHeight),
         items |-> <<>>,
         height |-> Num(0)]

isLayoutComplete(row) == JsGt(row.height, Num(0))

RECURSIVE PlaceItems(_, _, _, _)
\* the forEach of completeLayout: top, width, height and left of each item
PlaceItems(row, items, h, ratio) ==
    IF items = <<>> THEN <<>>
    ELSE LET before == PlaceItems(row, SubSeq(items, 1, Len(items) - 1), h, ratio)
             leftEdge == IF before = <<>> THEN row.left
                         ELSE JsAdd(JsAdd(before[Len(before)].left,
                                          before[Len(before)].width), row.spacing)
             item == items[Len(items)]
         IN  Append(before,
                    [aspectRatio |-> item.aspectRatio,
                     top |-> row.top,
                     width |-> JsMul(JsMul(item.aspectRatio, h), ratio),
                     height |-> h,
                     left |-> leftEdge])

\* the 'justify' branch of completeLayout: spread the rounding error
JustifyItems(row, placed) ==
    LET n == Len(placed)
        itemWidthSum == JsAdd(SumOf(placed, "width"),
                              JsMul(Num(n - 1), row.spacing))
        errorWidthPerItem == JsDiv(JsSub(itemWidthSum, row.width), Num(n))
        rce(i) == MathRound(JsMul(Num(i), errorWidthPerItem))
    IN  IF n = 1
        THEN <<[placed[1] EXCEPT !.width = JsSub(@, MathRound(errorWidthPerItem))]>>
        ELSE [i \in 1..n |->
                IF i > 1
                THEN [placed[i] EXCEPT !.left = JsSub(@, rce(i - 1)),
                                       !.width = JsSub(@, JsSub(rce(i), rce(i - 1)))]
                ELSE [placed[i] EXCEPT !.width = JsSub(@, rce(i))]]

completeLayout(row, newHeight, widowLayoutStyle) ==
    LET rowWidthWithoutSpacing ==
            JsSub(row.width, JsMul(Num(Len(row.items) - 1), row.spacing))
        clampedHeight ==
            MathMax(row.edgeCaseMinRowHeight,
                    MathMin(newHeight, row.edgeCaseMaxRowHeight))
        clamped == newHeight # clampedHeight
        h == IF clamped THEN clampedHeight ELSE newHeight
        clampedToNativeRatio ==
            IF clamped
            THEN JsDiv(JsDiv(rowWidthWithoutSpacing, clampedHeight),
                       JsDiv(rowWidthWithoutSpacing, newHeight))
            ELSE Num(1)
        placed == PlaceItems(row, row.items, h, clampedToNativeRatio)
    IN  [row EXCEPT !.height = h,
                    !.items = IF widowLayoutStyle = "justify"
                              THEN JustifyItems(row, placed)
                              ELSE placed]

\* Row.addItem: [row, added]
addItem(row, itemData) ==
    LET newItems == Append(row.items, itemData)
        rowWidthWithoutSpacing ==
            JsSub(row.width, JsMul(Num(Len(newItems) - 1), row.spacing))
        newAspectRatio == SumOf(newItems, "aspectRatio")
        targetAspectRatio == JsDiv(rowWidthWithoutSpacing, row.targetRowHeight)
        previousRowWidthWithoutSpacing ==
            JsSub(row.width, JsMul(Num(Len(row.items) - 1), row.spacing))
        previousAspectRatio == SumOf(row.items, "aspectRatio")
        previousTargetAspectRatio ==
            JsDiv(previousRowWidthWithoutSpacing, row.targetRowHeight)
        accepted == [row EXCEPT !.items = newItems]
        closeWithNew ==
            [row |-> completeLayout(accepted,
                         JsDiv(rowWidthWithoutSpacing, newAspectRatio), "justify"),
             added |-> TRUE]
    IN  IF JsLt(newAspectRatio, row.minAspectRatio)
        THEN [row |-> accepted, added |-> TRUE]
        ELSE IF JsGt(newAspectRatio, row.maxAspectRatio)
        THEN IF Len(row.items) = 0
             THEN closeWithNew
             ELSE IF JsGt(MathAbs(JsSub(newAspectRatio, targetAspectRatio)),
                          MathAbs(JsSub(previousAspectRatio,
                                        previousTargetAspectRatio)))
                  THEN [row |-> completeLayout(row,
                                    JsDiv(previousRowWidthWithoutSpacing,
                                          previousAspectRatio), "justify"),
                        added |-> FALSE]
                  ELSE closeWithNew
        ELSE closeWithNew

\* Row.forceComplete(false, rowHeight) with widowLayoutStyle 'left'
forceComplete(row, rowHeight) ==
    IF IsNum(rowHeight)
    THEN completeLayout(row, rowHeight, "left")
    ELSE completeLayout(row, row.targetRowHeight, "left")

\* addRow: the row joins the layout and the container grows by its height
addRow(layoutConfig, st, row) ==
    [st EXCEPT !.rows = Append(@, row),
               !.layoutItems = @ \o row.items,
               !.containerHeight =
                   JsAdd(@, JsAdd(row.height, layoutConfig.boxSpacing))]

\* a completed row has been added: the next row starts below it
StartRow(layoutConfig, st) ==
    [st EXCEPT !.currentRow = createNewRow(layoutConfig, st.containerHeight)]

\* the rejected item has been offered to a row of its own
AfterSecondAdd(layoutConfig, st, second) ==
    IF ~isLayoutComplete(second.row)
    THEN [st EXCEPT !.currentRow = second.row]
    ELSE StartRow(layoutConfig, addRow(layoutConfig, st, second.row))

\* the item has been offered to the current row
AfterFirstAdd(layoutConfig, st, itemData, first) ==
    IF ~isLayoutComplete(first.row)
    THEN [st EXCEPT !.currentRow = first.row]
    ELSE IF first.added
         THEN StartRow(layoutConfig, addRow(layoutConfig, st, first.row))
         ELSE AfterSecondAdd(layoutConfig,
                             addRow(layoutConfig, st, first.row),
                             addItem(createNewRow(layoutConfig,
                                         JsAdd(st.containerHeight,
                                               JsAdd(first.row.height,
                                                     layoutConfig.boxSpacing))),
                                     itemData))

\* one pass of the item loop of computeLayout
LayoutStep(layoutConfig, st, itemData) ==
    AfterFirstAdd(layoutConfig, st, itemData, addItem(st.currentRow, itemData))

RECURSIVE LayoutLoop(_, _)
LayoutLoop(layoutConfig, itemLayoutData) ==
    IF itemLayoutData = <<>>
    THEN [rows |-> <<>>, layoutItems |-> <<>>,
          containerHeight |-> layoutConfig.containerPadding,
          currentRow |-> createNewRow(layoutConfig, layoutConfig.containerPadding)]
    ELSE LayoutStep(layoutConfig,
                    LayoutLoop(layoutConfig,
                               SubSeq(itemLayoutData, 1, Len(itemLayoutData) - 1)),
                    itemLayoutData[Len(itemLayoutData)])

\* the leftover row, completed at the height of the row above it, or at the
\* target height when it is the only row
WidowRow(st) ==
    IF st.rows # <<>>
    THEN forceComplete(st.currentRow, st.rows[Len(st.rows)].height)
    ELSE forceComplete(st.currentRow, undefined)

\* mutant: every laid-out item is counted as a widow
FinishLayout_countsAll(st) ==
    IF Len(st.currentRow.items) > 0
    THEN [kind |-> "layout",
          boxes |-> st.layoutItems \o WidowRow(st).items,
          widowCount |-> Len(st.layoutItems) + Len(st.currentRow.items)]
    ELSE [kind |-> "layout",
          boxes |-> st.layoutItems,
          widowCount |-> 0]

\* the end of computeLayout: the leftover items become the widow row
FinishLayout(st) ==
    IF Len(st.currentRow.items) > 0
    THEN [kind |-> "layout",
          boxes |-> st.layoutItems \o WidowRow(st).items,
          widowCount |-> Len(st.currentRow.items)]
    ELSE [kind |-> "layout",
          boxes |-> st.layoutItems,
          widowCount |-> 0]

\* computeLayout: an item without a numeric aspect ratio is refused, else
\* the loop, then the leftover (widow) row
computeLayout(layoutConfig, itemLayoutData) ==
    IF \E i \in 1..Len(itemLayoutData) : JsIsNaN(itemLayoutData[i].aspectRatio)
    THEN Threw("invalid aspect ratio")
    ELSE FinishLayout(LayoutLoop(layoutConfig, itemLayoutData))

getJustifiedLayout(input, config) ==
    computeLayout(config,
                  [i \in 1..Len(input) |-> [aspectRatio |-> ItemAspectRatio(input[i])]])

----------------------------------------------------------------------------
(* gallery.js: the layout functions                                        *)

null == [kind |-> "null"]

\* getImage(image): the image's gatsbyImageData, read for height and width
getImage(image) == [height |-> image.height, width |-> image.width]

\* mutant: the height is scaled by the aspect ratio instead of divided by it
getMobileImageSizes_inverted(galleryWidth, imageDimensions) ==
    [i \in 1..Len(imageDimensions) |->
        LET aspectRatio == JsDiv(imageDimensions[i].width, imageDimensions[i].height)
        IN  [height |-> JsMul(galleryWidth, aspectRatio),
             width |-> galleryWidth]]

getMobileImageSizes(galleryWidth, imageDimensions) ==
    [i \in 1..Len(imageDimensions) |->
        LET aspectRatio == JsDiv(imageDimensions[i].width, imageDimensions[i].height)
        IN  [height |-> JsDiv(galleryWidth, aspectRatio),
             width |-> galleryWidth]]

\* mutant: images without usable dimensions are dropped before the layout
getImageLayout_skipsInvalid(galleryWidth, images) ==
    LET usable == SelectSeq(images,
                      LAMBDA im : Truthy(im.width) /\ Truthy(im.height))
        imageDimensions == [i \in 1..Len(usable) |-> getImage(usable[i])]
    IN  IF JsLe(galleryWidth, Num(screen_mobile_small))
        THEN [kind |-> "layout",
              boxes |-> getMobileImageSizes(galleryWidth, imageDimensions),
              widowCount |-> 0]
        ELSE getJustifiedLayout(imageDimensions,
                 [boxSpacing |-> GALLERY_CONFIG.boxSpacing,
                  containerPadding |-> GALLERY_CONFIG.containerPadding,
                  targetRowHeight |-> GALLERY_CONFIG.targetRowHeight,
                  targetRowHeightTolerance |-> GALLERY_CONFIG.targetRowHeightTolerance,
                  containerWidth |-> galleryWidth])

\* mutant: the gallery width is not handed to the packing, which then lays
\* out for its default container width
getImageLayout_defaultWidth(galleryWidth, images) ==
    LET imageDimensions == [i \in 1..Len(images) |-> getImage(images[i])]
    IN  IF JsLe(galleryWidth, Num(screen_mobile_small))
        THEN [kind |-> "layout",
              boxes |-> getMobileImageSizes(galleryWidth, imageDimensions),
              widowCount |-> 0]
        ELSE getJustifiedLayout(imageDimensions,
                 [boxSpacing |-> GALLERY_CONFIG.boxSpacing,
                  containerPadding |-> GALLERY_CONFIG.containerPadding,
                  targetRowHeight |-> GALLERY_CONFIG.targetRowHeight,
                  targetRowHeightTolerance |-> GALLERY_CONFIG.targetRowHeightTolerance,
                  containerWidth |-> Num(1060)])

getImageLayout(galleryWidth, images) ==
    LET imageDimensions == [i \in 1..Len(images) |-> getImage(images[i])]
    IN  IF JsLe(galleryWidth, Num(screen_mobile_small))
        THEN [kind |-> "layout",
              boxes |-> getMobileImageSizes(galleryWidth, imageDimensions),
              widowCount |-> 0]
        ELSE getJustifiedLayout(imageDimensions,
                 [boxSpacing |-> GALLERY_CONFIG.boxSpacing,
                  containerPadding |-> GALLERY_CONFIG.containerPadding,
                  targetRowHeight |-> GALLERY_CONFIG.targetRowHeight,
                  targetRowHeightTolerance |-> GALLERY_CONFIG.targetRowHeightTolerance,
                  containerWidth |-> galleryWidth])

\* mutant: the desktop breakpoint itself is treated as a small screen
getImageLoadBehavior_inclusive(galleryWidth, i) ==
    LET shouldEagerLoad == IF JsLe(galleryWidth, Num(screen_desktop))
                           THEN i < 3
                           ELSE i < 6
    IN  IF shouldEagerLoad THEN "eager" ELSE "lazy"

\* i is the 0-based index of the photo
getImageLoadBehavior(galleryWidth, i) ==
    LET shouldEagerLoad == IF JsLt(galleryWidth, Num(screen_desktop))
                           THEN i < 3
                           ELSE i < 6
    IN  IF shouldEagerLoad THEN "eager" ELSE "lazy"

\* mutant: one gap fewer than there are widow boxes is subtracted
Widow_gaps(containerWidth, widowBoxes, spacing) ==
    IF widowBoxes = <<>>
    THEN Threw("TypeError")
    ELSE [kind |-> "div",
          height |-> widowBoxes[1].height,
          width |-> JsSub(JsSub(containerWidth, SumOf(widowBoxes, "width")),
                          JsMul(Num(Len(widowBoxes) - 1), spacing))]

\* the Widow component: the filler div, or a TypeError when widowBoxes[0]
\* is undefined
Widow(containerWidth, widowBoxes, spacing) ==
    IF widowBoxes = <<>>
    THEN Threw("TypeError")
    ELSE [kind |-> "div",
          height |-> widowBoxes[1].height,
          width |-> JsSub(JsSub(containerWidth, SumOf(widowBoxes, "width")),
                          JsMul(Num(Len(widowBoxes)), spacing))]

----------------------------------------------------------------------------
(* gallery.js: the Gallery component                                       *)

\* mutant: the memo depends on the images alone
LayoutDeps_imagesOnly(images, w) == <<images>>

\* the dependency list of the layout memo
LayoutDeps(images, w) == <<images, w>>

\* mutant: any measured width, 0 included, is laid out
UseLayoutMemo_definedOnly(prev, images, w) ==
    IF prev.deps = LayoutDeps(images, w)
    THEN [deps |-> prev.deps, value |-> prev.value, invoked |-> FALSE]
    ELSE IF w # undefined
         THEN [deps |-> LayoutDeps(images, w),
               value |-> getImageLayout(w, images),
               invoked |-> TRUE]
         ELSE [deps |-> LayoutDeps(images, w), value |-> null, invoked |-> FALSE]

\* useMemo(() => width ? getImageLayout(width, fluidImages) : null, deps):
\* the stored value while the dependencies are unchanged, else the factory
UseLayoutMemo(prev, images, w) ==
    IF prev.deps = LayoutDeps(images, w)
    THEN [deps |-> prev.deps, value |-> prev.value, invoked |-> FALSE]
    ELSE IF Truthy(w)
         THEN [deps |-> LayoutDeps(images, w),
               value |-> getImageLayout(w, images),
               invoked |-> TRUE]
         ELSE [deps |-> LayoutDeps(images, w), value |-> null, invoked |-> FALSE]

NoWidow == [kind |-> "none"]

\* mutant: the filler is drawn for every positive widow count
DrawsWidow_unguarded(galleryLayout, images) ==
    /\ galleryLayout.kind = "layout"
    /\ galleryLayout.widowCount > 0

\* galleryLayout && widowCount > 0 && widowCount < fluidImages.length
DrawsWidow(galleryLayout, images) ==
    /\ galleryLayout.kind = "layout"
    /\ galleryLayout.widowCount > 0
    /\ galleryLayout.widowCount < Len(images)

\* the wrapping divs: one per image, sized from boxes[i]
ImageDivs(galleryLayout, images, w) ==
    IF galleryLayout.kind # "layout" THEN <<>>
    ELSE [i \in 1..Len(images) |->
            IF i > Len(galleryLayout.boxes)
            THEN Threw("TypeError")
            ELSE [kind |-> "div",
                  height |-> galleryLayout.boxes[i].height,
                  width |-> galleryLayout.boxes[i].width,
                  loading |-> getImageLoadBehavior(w, i - 1)]]

WidowDiv(galleryLayout, images, w) ==
    IF DrawsWidow(galleryLayout, images)
    THEN Widow(w,
               Slice(galleryLayout.boxes,
                     Len(galleryLayout.boxes) - galleryLayout.widowCount),
               GALLERY_CONFIG.boxSpacing)
    ELSE NoWidow

Unmounted == [divs |-> <<>>, widow |-> NoWidow]

NoError == "none"

\* the error rendering the given elements throws, if any
Thrown(value, divs, widow) ==
    IF value.kind = "threw" THEN value.message
    ELSE IF \E i \in 1..Len(divs) : divs[i].kind = "threw" THEN "TypeError"
    ELSE IF widow.kind = "threw" THEN widow.message
    ELSE NoError

\* the outcome of a render: the tree is kept, or torn down when it threw
Commit(images, w, m, divs, widow) ==
    /\ fluidImages' = images
    /\ width' = w
    /\ invoked' = m.invoked
    /\ error' = Thrown(m.value, divs, widow)
    /\ IF Thrown(m.value, divs, widow) # NoError
       THEN /\ memo' = memo
            /\ rendered' = Unmounted
       ELSE /\ memo' = [deps |-> m.deps, value |-> m.value]
            /\ rendered' = [divs |-> divs, widow |-> widow]

RenderWith(images, w, m) ==
    Commit(images, w, m, ImageDivs(m.value, images, w), WidowDiv(m.value, images, w))

\* one render of Gallery with the given props and observed width
Render(images, w) == RenderWith(images, w, UseLayoutMemo(memo, images, w))

\* which path a width takes through the memo factory and getImageLayout
PathOf(w) ==
    IF ~Truthy(w) THEN "deferred"
    ELSE IF JsLe(w, Num(screen_mobile_small)) THEN "mobile"
    ELSE "packing"

----------------------------------------------------------------------------
(* Inputs                                                                  *)

\* image descriptors: three well-formed ones (4:3, 16:9, a panorama) and
\* two with a zero or missing dimension
ImageKinds ==
    { [width |-> Num(800), height |-> Num(600)],
      [width |-> Num(1600), height |-> Num(900)],
      [width |-> Num(4000), height |-> Num(500)],
      [width |-> Num(0), height |-> Num(600)],
      [width |-> Num(800), height |-> undefined] }

\* widths the resize observer reports
ObservedWidths ==
    { Num(0), Num(320), Num(screen_mobile_small), Num(screen_mobile_small + 1),
      Num(1000), Num(screen_desktop) }

\* arguments of the pure functions
ProbeWidths ==
    { Num(320), Num(screen_mobile_small), Num(1000), Num(screen_desktop - 1),
      Num(screen_desktop), Num(screen_desktop + 1), Num(1600) }

ProbeBoxes ==
    { [height |-> Rat(1125, 2), width |-> Num(1000)],
      [height |-> Num(400), width |-> Rat(1600, 3)],
      [height |-> Rat(1190, 3), width |-> Rat(1190, 3)],
      [height |-> Num(200), width |-> Num(300)] }

ProbeSpacings == { Num(0), Num(boxSpacing) }

NoProbe == [fn |-> "none"]
Pending == [kind |-> "pending"]

----------------------------------------------------------------------------
(* The gallery as a state machine                                          *)

\* the first render: the resize observer has not measured the container
Mounted(images) ==
    /\ fluidImages = images
    /\ width = undefined
    /\ memo = [deps |-> LayoutDeps(images, undefined), value |-> null]
    /\ rendered = Unmounted
    /\ error = NoError
    /\ invoked = FALSE
    /\ previous = "none"

Init ==
    /\ \E images \in UNION { [1..n -> ImageKinds] : n \in 0..MaxImages } :
          Mounted(images)
    /\ probe = NoProbe

\* the resize observer reports a new width
Observe(w) ==
    /\ error = NoError
    /\ w # width
    /\ Render(fluidImages, w)
    /\ previous' = PathOf(width)
    /\ UNCHANGED probe

\* the page passes a list with one more image
AppendImage(img) ==
    /\ error = NoError
    /\ Len(fluidImages) < MaxImages
    /\ Render(Append(fluidImages, img), width)
    /\ UNCHANGED <<previous, probe>>

\* the page passes a list with the last image removed
DropImage ==
    /\ error = NoError
    /\ Len(fluidImages) > 0
    /\ Render(SubSeq(fluidImages, 1, Len(fluidImages) - 1), width)
    /\ UNCHANGED <<previous, probe>>

\* the parent re-renders with the same props and width
Rerender ==
    /\ error = NoError
    /\ Render(fluidImages, width)
    /\ UNCHANGED <<previous, probe>>

Next ==
    \/ \E w \in ObservedWidths : Observe(w)
    \/ \E img \in ImageKinds : AppendImage(img)
    \/ DropImage
    \/ Rerender

Spec == Init /\ [][Next]_vars

----------------------------------------------------------------------------
(* getImageLoadBehavior applied to chosen arguments                        *)

InitLoadHint ==
    /\ Mounted(<<>>)
    /\ \E w \in ProbeWidths, i \in 0..MaxIndex :
          probe = [fn |-> "loadHint", galleryWidth |-> w, i |-> i,
                   result |-> "pending"]

ApplyLoadHint ==
    /\ probe.fn = "loadHint"
    /\ probe.result = "pending"
    /\ probe' = [probe EXCEPT
                    !.result = getImageLoadBehavior(probe.galleryWidth, probe.i)]
    /\ UNCHANGED <<fluidImages, width, memo, rendered, error, invoked, previous>>

NextLoadHint == ApplyLoadHint

SpecLoadHint == InitLoadHint /\ [][NextLoadHint]_vars

----------------------------------------------------------------------------
(* Widow applied to chosen arguments                                       *)

InitWidow ==
    /\ Mounted(<<>>)
    /\ \E w \in ProbeWidths, sp \in ProbeSpacings,
          boxes \in UNION { [1..n -> ProbeBoxes] : n \in 1..MaxWidow } :
          probe = [fn |-> "widow", containerWidth |-> w, widowBoxes |-> boxes,
                   boxSpacing |-> sp, result |-> Pending]

ApplyWidow ==
    /\ probe.fn = "widow"
    /\ probe.result = Pending
    /\ probe' = [probe EXCEPT
                    !.result = Widow(probe.containerWidth, probe.widowBoxes,
                                     probe.boxSpacing)]
    /\ UNCHANGED <<fluidImages, width, memo, rendered, error, invoked, previous>>

NextWidow == ApplyWidow

SpecWidow == InitWidow /\ [][NextWidow]_vars

----------------------------------------------------------------------------
(* Properties                                                              *)

galleryLayout == memo.value
HasLayout == error = NoError /\ galleryLayout.kind = "layout"
OnMobilePath == PathOf(width) = "mobile"
OnPackingPath == PathOf(width) = "packing"
ValidImage(im) == Truthy(im.width) /\ Truthy(im.height)
Finite(a) == a.k = "num"

\* C1: at every measured width up to and including the mobile breakpoint the
\* layout has widow count 0 and one box per image, as wide as the container
\* and as high as the container width times the image's height over its
\* width (for every image whose dimensions are numbers); the boxes carry no
\* packing geometry.
C1_MobileLayout ==
    OnMobilePath =>
        /\ HasLayout
        /\ galleryLayout.widowCount = 0
        /\ Len(galleryLayout.boxes) = Len(fluidImages)
        /\ \A i \in 1..Len(fluidImages) :
              /\ DOMAIN galleryLayout.boxes[i] = {"height", "width"}
              /\ galleryLayout.boxes[i].width = width
              /\ (IsNum(fluidImages[i].width) /\ IsNum(fluidImages[i].height)) =>
                    galleryLayout.boxes[i].height =
                        JsDiv(JsMul(width, fluidImages[i].height),
                              fluidImages[i].width)

C1_Witness ==
    /\ width = Num(screen_mobile_small)
    /\ HasLayout
    /\ Len(fluidImages) = MaxImages
    /\ \E i \in 1..Len(fluidImages) :
          /\ ValidImage(fluidImages[i])
          /\ galleryLayout.boxes[i].height # galleryLayout.boxes[i].width

\* the boxes of the final row: those sharing the top of the last box
LastRowCount(boxes) ==
    Cardinality({i \in 1..Len(boxes) : boxes[i].top = boxes[Len(boxes)].top})

C3_OneBoxPerImage ==
    /\ error # "TypeError"
    /\ HasLayout =>
          /\ Len(galleryLayout.boxes) = Len(fluidImages)
          /\ Len(rendered.divs) = Len(fluidImages)
          /\ \A i \in 1..Len(fluidImages) :
                /\ rendered.divs[i].kind = "div"
                /\ rendered.divs[i].height = galleryLayout.boxes[i].height
                /\ rendered.divs[i].width = galleryLayout.boxes[i].width
                /\ OnPackingPath =>
                      galleryLayout.boxes[i].aspectRatio =
                          Rat(fluidImages[i].width.n, fluidImages[i].height.n)
                /\ (OnMobilePath /\ ValidImage(fluidImages[i])) =>
                      JsMul(galleryLayout.boxes[i].height, fluidImages[i].width) =
                          JsMul(galleryLayout.boxes[i].width, fluidImages[i].height)

C3_Witness ==
    /\ HasLayout
    /\ OnPackingPath
    /\ Len(fluidImages) = MaxImages
    /\ \E i, j \in 1..Len(fluidImages) :
          /\ galleryLayout.boxes[i].top # galleryLayout.boxes[j].top
          /\ fluidImages[i] # fluidImages[j]

\* the boxes ahead of the widow row, and the row of one of them
FullRowBoxes == SubSeq(galleryLayout.boxes, 1,
                       Len(galleryLayout.boxes) - galleryLayout.widowCount)
RowAt(top) == SelectSeq(FullRowBoxes, LAMBDA b : b.top = top)
RowFills(row) ==
    JsAdd(SumOf(row, "width"), JsMul(Num(Len(row) - 1), GALLERY_CONFIG.boxSpacing))
        = width
RowSharesHeight(row) == \A i \in 1..Len(row) : row[i].height = row[1].height
MinTolerated ==
    JsMul(GALLERY_CONFIG.targetRowHeight,
          JsSub(Num(1), GALLERY_CONFIG.targetRowHeightTolerance))
MaxTolerated ==
    JsMul(GALLERY_CONFIG.targetRowHeight,
          JsAdd(Num(1), GALLERY_CONFIG.targetRowHeightTolerance))

LoadHintApplied == probe.fn = "loadHint" /\ probe.result # "pending"

\* C5: the load hint is eager exactly for the first 3 indices below the
\* desktop breakpoint and exactly for the first 6 at or above it; once an
\* index is lazy every later index is lazy at the same width.
C5_LoadHint ==
    LoadHintApplied =>
        /\ probe.result \in {"eager", "lazy"}
        /\ (probe.galleryWidth.n < screen_desktop * probe.galleryWidth.d) =>
              (probe.result = "eager" <=> probe.i < 3)
        /\ (probe.galleryWidth.n >= screen_desktop * probe.galleryWidth.d) =>
              (probe.result = "eager" <=> probe.i < 6)
        /\ probe.result = "lazy" =>
              \A j \in probe.i..MaxIndex :
                  getImageLoadBehavior(probe.galleryWidth, j) = "lazy"

C5_Witness ==
    /\ LoadHintApplied
    /\ probe.galleryWidth = Num(screen_desktop)
    /\ probe.i = 5
    /\ probe.result = "eager"

WidowApplied == probe.fn = "widow" /\ probe.result # Pending

\* C6: for a non-empty list of widow boxes the filler is as high as the first
\* widow box, and its width plus the widths of the widow boxes plus one
\* spacing per widow box is the container width.
C6_WidowFiller ==
    WidowApplied =>
        /\ probe.result.kind = "div"
        /\ probe.result.height = probe.widowBoxes[1].height
        /\ JsAdd(JsAdd(probe.result.width, SumOf(probe.widowBoxes, "width")),
                 JsMul(Num(Len(probe.widowBoxes)), probe.boxSpacing))
              = probe.containerWidth

C6_Witness ==
    /\ WidowApplied
    /\ Len(probe.widowBoxes) = MaxWidow
    /\ probe.boxSpacing = Num(boxSpacing)
    /\ probe.widowBoxes[1].height # probe.widowBoxes[2].height
    /\ JsGt(probe.result.width, Num(0))

\* C7: with an image whose width or height is missing or zero, a measured
\* width leads to a rejection and to no box at all, so no rendered box has a
\* dimension that is not a finite number.
C7_InvalidImagesRejected ==
    /\ (Truthy(width) /\ \E i \in 1..Len(fluidImages) : ~ValidImage(fluidImages[i])) =>
          /\ error # NoError
          /\ rendered.divs = <<>>
    /\ \A i \in 1..Len(rendered.divs) :
          /\ Finite(rendered.divs[i].height)
          /\ Finite(rendered.divs[i].width)

\* C8: while the width is unmeasured or 0 the layout is the null value, not a
\* layout result, getImageLayout is not called, and neither boxes nor a
\* filler are drawn.
C8_NoLayoutWithoutWidth ==
    ~Truthy(width) =>
        /\ error = NoError
        /\ galleryLayout = null
        /\ galleryLayout # getImageLayout(Num(0), <<>>)
        /\ ~invoked
        /\ rendered.divs = <<>>
        /\ rendered.widow = NoWidow

C8_Witness ==
    /\ width = Num(0)
    /\ previous = "packing"
    /\ Len(fluidImages) > 0
    /\ galleryLayout = null

\* the layout computed from scratch for the current width and images
FreshLayout ==
    IF Truthy(width) THEN getImageLayout(width, fluidImages) ELSE null

\* C9: after any sequence of observed widths and image lists, the layout in
\* use and everything drawn from it (boxes, load hints, filler) are those
\* computed from scratch for the current width and images; the gallery is
\* torn down only when that computation throws.
C9_LayoutIsFresh ==
    /\ error = NoError =>
          /\ galleryLayout = FreshLayout
          /\ rendered.divs = ImageDivs(FreshLayout, fluidImages, width)
          /\ rendered.widow = WidowDiv(FreshLayout, fluidImages, width)
          /\ \A i \in 1..Len(rendered.divs) :
                rendered.divs[i].loading = getImageLoadBehavior(width, i - 1)
    /\ error # NoError => FreshLayout.kind = "threw"

C9_Witness ==
    /\ previous = "mobile"
    /\ OnPackingPath
    /\ HasLayout
    /\ Len(fluidImages) >= 2
    /\ rendered.widow # NoWidow

WidowDrawn == rendered.widow # NoWidow
LastBoxes(n) ==
    SubSeq(galleryLayout.boxes, Len(galleryLayout.boxes) - n + 1,
           Len(galleryLayout.boxes))

\* C10: the filler is drawn exactly when a layout exists with a widow count
\* above 0 and below the number of images; it is then sized from the last
\* widowCount boxes, which are not empty, and reading the first of them never
\* fails. No filler is drawn on the mobile path, for no images, or when the
\* widow row is the whole gallery.
C10_WidowFillerDrawn ==
    /\ error # "TypeError"
    /\ WidowDrawn <=>
          /\ HasLayout
          /\ 0 < galleryLayout.widowCount
          /\ galleryLayout.widowCount < Len(fluidImages)
    /\ WidowDrawn =>
          /\ LastBoxes(galleryLayout.widowCount) # <<>>
          /\ rendered.widow.kind = "div"
          /\ rendered.widow.height =
                galleryLayout.boxes[Len(galleryLayout.boxes)
                                        - galleryLayout.widowCount + 1].height
          /\ rendered.widow.width =
                JsSub(JsSub(width,
                            SumOf(LastBoxes(galleryLayout.widowCount), "width")),
                      JsMul(Num(galleryLayout.widowCount),
                            GALLERY_CONFIG.boxSpacing))
    /\ OnMobilePath => ~WidowDrawn
    /\ Len(fluidImages) = 0 => ~WidowDrawn
    /\ (HasLayout /\ galleryLayout.widowCount = Len(fluidImages)) => ~WidowDrawn

C10_Witness ==
    /\ WidowDrawn
    /\ Len(fluidImages) = MaxImages
    /\ galleryLayout.widowCount = 1

====
